---- MODULE Spec2Model ----
(***************************************************************************)
(* Step sequencer / metronome (React component MetronomeUI).               *)
(*                                                                         *)
(* The model follows the extended variant of the component (the one with   *)
(* a subdivision spinner and the noise buffer); with subdivision = 1 it is *)
(* the component of src/app.js, whose scheduler, scheduleNote, playback    *)
(* effect and tempo handlers are the same code.                            *)
(*                                                                         *)
(* Conventions                                                             *)
(*  - All times are integers in milliseconds: the audio clock              *)
(*    (audioCtx.currentTime, seconds in the source), onset times, timer    *)
(*    due times.  60.0 / bpm is therefore 60000 / bpm and the look-ahead   *)
(*    horizon 0.1 s is 100.  The tempo and meter values the model feeds    *)
(*    in divide 60000 evenly, so the integer arithmetic is exact.          *)
(*  - One clock: setTimeout's clock and the audio clock advance together.  *)
(*    A timer may fire arbitrarily late (the clock may pass its due time   *)
(*    before it runs), never early.  Timers run in the order of their due  *)
(*    times, and in creation order when the due times are equal.           *)
(*  - A React state variable and the ref that mirrors it (bpm/bpmRef,      *)
(*    grid/gridRef, beatsPerCycle/beatsRef, subdivision/subRef,            *)
(*    isPlaying/isPlayingRef) are one variable: an action is the event     *)
(*    handler together with the render it causes and the effects of that   *)
(*    render, which copy the state to the ref before any timer can run.    *)
(*  - JavaScript values that are not plain integers ('' , Infinity, NaN)   *)
(*    are tagged records, see Num.                                         *)
(***************************************************************************)
EXTENDS Integers, Sequences, FiniteSets, TLC

VARIABLES
    bpm,              \* useState bpm / bpmRef.current: a JS value (number or '')
    beatsPerCycle,    \* useState beatsPerCycle / beatsRef.current
    subdivision,      \* useState subdivision / subRef.current
    grid,             \* useState grid / gridRef.current: the set of truthy keys <<row, col>>
    isPlaying,        \* useState isPlaying / isPlayingRef.current
    currentStep,      \* useState currentStep (-1: no step highlighted)
    presets,          \* useState presets: sequence of preset records
    selectedPresetId, \* useState selectedPresetId
    audioCtx,         \* audioCtxRef.current # null
    currentTime,      \* audioCtxRef.current.currentTime, ms
    nextNoteTime,     \* nextNoteTimeRef.current, a JS number in ms
    stepRef,          \* stepRef.current
    timers,           \* pending setTimeout callbacks, in creation order
    timerID,          \* timerIDRef.current as an index into timers; 0: no pending timer
    hung,             \* the scheduler's while loop did not terminate
    tapTimes,         \* useState tapTimes: the tap window, Date.now() values in ms
    noiseBuffer,      \* noiseBufferRef.current: 0 for null, else the number of the
                      \* generation (initAudio's loop) that filled the buffer
    threw,            \* the uncaught exception that ended the component, or "none"
    saves,            \* the number of presets saved so far (each save reads Date.now())
    asked,            \* the id the last load was asked for: e.target.value of the
                      \* select box or the id of the first preset of the file read
                      \* ("none": no load yet, or a file without a first preset)
    \* observation (history) variables
    op,               \* name of the last handler / callback that ran
    emitted,          \* onsets emitted by the last action, in emission order
    prevOnset,        \* last onset emitted before the last action
    session,          \* number of the playing session that runs or starts next
    beatsFixed,       \* beatsPerCycle has not changed since the session started
    stoppedBy,        \* the handler that made the last transition to STOPPED
    tapLog,           \* every Date.now() value read by handleTap, in arrival order
    tapReset,         \* index in tapLog of the first tap since the last timeout reset
    lastToggle,       \* the last grid cell toggled since the pattern was loaded
    ticksInTime,      \* every tick of the session ran less than the horizon after
                      \* the tick before it
    dialPrev          \* the tempo that the last dial movement found

vars == <<bpm, beatsPerCycle, subdivision, grid, isPlaying, currentStep, presets,
          selectedPresetId, audioCtx, currentTime, nextNoteTime, stepRef, timers,
          timerID, hung, tapTimes, op, emitted, prevOnset, session, beatsFixed,
          stoppedBy, tapLog, tapReset, lastToggle, ticksInTime, noiseBuffer,
          threw, dialPrev, saves, asked>>

tapVars == <<tapTimes, tapLog, tapReset>>

----------------------------------------------------------------------------
(* Program constants *)

MIN_BPM == 30
MAX_BPM == 250
\* const lookahead = 25.0 (ms): the poll cadence
lookahead == 25
\* const scheduleAheadTime = 0.1 (s): the look-ahead horizon, in ms
scheduleAheadTime == 100
\* the 60.0 of "60.0 / bpmRef.current" (s), in ms
SecondsPerMinute == 60000
\* Math.min(prev + 1, 16) and Math.min(prev + 1, 8) of the meter spinners
MAX_BEATS == 16
MAX_SUBDIVISION == 8
\* handleTap: "now - prev[prev.length - 1] > 3000"
TAP_TIMEOUT == 3000
\* handleTap: "newTaps.length > 5", "newTaps.length >= 5"
TAP_WINDOW == 5
\* handleTap: the 60000 of "60000 / avgInterval"
MsPerMinute == 60000

(* Bounds of the model *)

\* the clock stops advancing here
MaxClock == 400
\* iterations of the scheduler's while loop that are unrolled before the loop
\* is declared non-terminating
MaxLoop == 12
\* playing sessions (starts) per behaviour
MaxSessions == 2
\* the spinners are not pressed beyond these values
MaxBeats == 4
MaxSub == 2
\* scheduler() is not called directly while this many timers are pending
MaxTimers == 4
\* amounts by which the clock advances in one step
ClockSteps == {50, 250}
\* the columns of the grid cells that are clicked
ToggleCols == {0, 1}
\* saved presets per behaviour
MaxSaves == 2
\* taps per behaviour
MaxTaps == 6
\* Date.now() when the component is mounted
DateEpoch == 10000
\* Date.now() at a tap minus Date.now() at the tap before it: taps in the same
\* millisecond (0), after the system clock was set back (negative), inside the
\* timeout, exactly at the timeout and just beyond it
TapGaps == {-500, 0, 500, 3000, 3001}

----------------------------------------------------------------------------
(* JavaScript values *)

Num(n) == [type |-> "number", val |-> n]
Infinity == [type |-> "Infinity", val |-> 0]
NaN == [type |-> "NaN", val |-> 0]
EmptyString == [type |-> "string", val |-> 0]

\* a non-empty string, as the sequence of its characters
Text(chars) == [type |-> "text", val |-> chars]

DigitChars == <<"0", "1", "2", "3", "4", "5", "6", "7", "8", "9">>
IsDigit(c) == \E i \in 1..10 : DigitChars[i] = c
DigitValue(c) == (CHOOSE i \in 1..10 : DigitChars[i] = c) - 1

\* the value of the longest run of digits of s that starts at position i
RECURSIVE ParseDigits(_, _, _)
ParseDigits(s, i, acc) ==
    IF i > Len(s) \/ ~IsDigit(s[i]) THEN acc
    ELSE ParseDigits(s, i + 1, 10 * acc + DigitValue(s[i]))

\* the first position of s from i on that holds no digit
RECURSIVE DigitsEnd(_, _)
DigitsEnd(s, i) == IF i > Len(s) \/ ~IsDigit(s[i]) THEN i ELSE DigitsEnd(s, i + 1)

\* Number(s) for a non-empty string s, doubled: an optional sign, digits and
\* an optional fraction; any other text is NaN.  (The strings here have no
\* white space, exponent or radix prefix, and their fraction is .5 or none, so
\* that twice the value is an integer.)
\* (first: the position after the sign; dot: the position after the digits
\* that follow it)
UnsignedLiteral2(s, first, dot) ==
    IF first > Len(s) \/ ~IsDigit(s[first]) THEN NaN
    ELSE IF dot <= Len(s) /\ (s[dot] # "." \/ DigitsEnd(s, dot + 1) <= Len(s)) THEN NaN
    ELSE Num(2 * ParseDigits(s, first, 0)
             + (IF dot + 1 <= Len(s) /\ DigitValue(s[dot + 1]) >= 5 THEN 1 ELSE 0))

Negate(x) == IF x.type = "number" THEN Num(0 - x.val) ELSE x

StringToNumber2(s) ==
    IF Len(s) > 0 /\ s[1] = "-" THEN Negate(UnsignedLiteral2(s, 2, DigitsEnd(s, 2)))
    ELSE IF Len(s) > 0 /\ s[1] = "+" THEN UnsignedLiteral2(s, 2, DigitsEnd(s, 2))
    ELSE UnsignedLiteral2(s, 1, DigitsEnd(s, 1))

\* the decimal digits of n >= 0
RECURSIVE DigitsOf(_)
DigitsOf(n) ==
    IF n < 10 THEN <<DigitChars[n + 1]>>
    ELSE Append(DigitsOf(n \div 10), DigitChars[(n % 10) + 1])

\* String(x) for the number x = h / 2
NumberToString2(h) ==
    LET a == IF h < 0 THEN 0 - h ELSE h IN
    (IF h < 0 THEN <<"-">> ELSE <<>>) \o DigitsOf(a \div 2)
        \o (IF a % 2 = 1 THEN <<".", "5">> ELSE <<>>)

\* Number(x), the conversion the arithmetic operators apply (Halve drops the
\* fraction of a string, as the values here are whole numbers)
Halve(n2) ==
    IF n2.type = "NaN" THEN NaN
    ELSE IF n2.val < 0 THEN Num(0 - ((0 - n2.val) \div 2))
    ELSE Num(n2.val \div 2)

ToNumber(x) ==
    IF x.type = "string" THEN Num(0)
    ELSE IF x.type = "text" THEN Halve(StringToNumber2(x.val))
    ELSE x

\* isNaN(x): Number('') is 0, so isNaN('') is false
isNaN(x) == ToNumber(x).type = "NaN"

\* a / d for a finite a > 0 or a = Infinity and a number d
Quotient(a, d) ==
    IF a.type = "NaN" \/ d.type = "NaN" THEN NaN
    ELSE IF a.type = "Infinity" THEN (IF d.type = "Infinity" THEN NaN ELSE Infinity)
    ELSE IF d.type = "Infinity" THEN Num(0)
    ELSE IF d.val = 0 THEN Infinity
    ELSE Num(a.val \div d.val)

\* a / b for a finite a > 0 or a = Infinity, b converted to a number
Divide(a, b) == Quotient(a, ToNumber(b))

\* a + b for numbers (never Infinity + -Infinity here: there is no -Infinity)
Add(a, b) ==
    IF a.type = "NaN" \/ b.type = "NaN" THEN NaN
    ELSE IF a.type = "Infinity" \/ b.type = "Infinity" THEN Infinity
    ELSE Num(a.val + b.val)

\* a < b for numbers
Less(a, b) ==
    IF a.type = "NaN" \/ b.type = "NaN" THEN FALSE
    ELSE IF a.type = "Infinity" THEN FALSE
    ELSE IF b.type = "Infinity" THEN TRUE
    ELSE a.val < b.val

Max(a, b) == IF a >= b THEN a ELSE b
Min(a, b) == IF a <= b THEN a ELSE b

----------------------------------------------------------------------------
(* parseInt on the text of the tempo field (a sequence of characters) *)

\* parseInt(s): an optional sign, then digits up to the first other character;
\* NaN when no digit follows the sign
parseInt(s) ==
    LET signed == Len(s) > 0 /\ s[1] \in {"-", "+"}
        first == IF signed THEN 2 ELSE 1
    IN  IF first > Len(s) \/ ~IsDigit(s[first]) THEN NaN
        ELSE IF signed /\ s[1] = "-" THEN Num(0 - ParseDigits(s, first, 0))
        ELSE Num(ParseDigits(s, first, 0))

----------------------------------------------------------------------------
(* Presets *)

Voices == <<"high", "mid", "low">>

DEFAULT_PRESET ==
    [id |-> "default", bpm |-> Num(120), beatsPerCycle |-> 4, subdivision |-> 1,
     grid |-> {<<"high", 0>>, <<"low", 0>>, <<"mid", 2>>}]

\* { ...DEFAULT_PRESET, ...p }: the fields of p, and DEFAULT_PRESET's for the rest
Normalize(p) ==
    [f \in DOMAIN DEFAULT_PRESET \cup DOMAIN p |->
        IF f \in DOMAIN p THEN p[f] ELSE DEFAULT_PRESET[f]]

\* x || 1
OrOne(x) == IF x = 0 THEN 1 ELSE x

\* presets.find(p => p.id === id): the index of the first such preset, 0 if none
FindPreset(ps, id) ==
    IF \E i \in 1..Len(ps) : ps[i].id = id
    THEN CHOOSE i \in 1..Len(ps) : ps[i].id = id /\ \A j \in 1..(i - 1) : ps[j].id # id
    ELSE 0

\* The parsed contents of the files offered to the import dialog
FileFast ==
    << [id |-> "fast", bpm |-> Num(300), beatsPerCycle |-> 2, subdivision |-> 2,
        grid |-> {<<"low", 0>>, <<"high", 1>>}] >>
FilePartial ==
    << [id |-> "slow", bpm |-> Num(60),
        grid |-> {<<"high", 0>>, <<"mid", 0>>, <<"mid", 1>>}],
       [id |-> "fast", bpm |-> Num(250), beatsPerCycle |-> 3, subdivision |-> 1,
        grid |-> {<<"high", 2>>}] >>
\* a file whose meter is outside the range of the spinners
FileWide ==
    << [id |-> "wide", bpm |-> Num(30), beatsPerCycle |-> 17, subdivision |-> 9,
        grid |-> {<<"low", 0>>}] >>
ImportFiles == {FileFast, FilePartial, FileWide}
\* a file that gives the tempo in quotes: [{"id": "text", "bpm": "120"}]
FileText == << [id |-> "text", bpm |-> Text(<<"1", "2", "0">>)] >>

\* what the reader's onload finds in a file: whether JSON.parse accepts the
\* text, whether the value is an array, and the elements of the array
FileEmpty == [json |-> TRUE, array |-> TRUE, items |-> <<>>]
\* a single preset that is not wrapped in an array: {"id": "solo", "bpm": 90}
FileObject == [json |-> TRUE, array |-> FALSE, items |-> <<>>]
\* a text that is not JSON
FileMalformed == [json |-> FALSE, array |-> FALSE, items |-> <<>>]
RejectedFiles == {FileEmpty, FileObject, FileMalformed}

\* Array.isArray(loadedPresets) && loadedPresets.length > 0, inside the try
Accepted(f) == f.json /\ f.array /\ Len(f.items) > 0

\* ids that the select box may report although no preset has them
UnknownIds == {"gone"}

\* a file whose two presets have no id: both get the id of DEFAULT_PRESET
FileTwins ==
    << [bpm |-> Num(90), grid |-> {<<"low", 0>>}],
       [bpm |-> Num(100), grid |-> {<<"low", 1>>}] >>

\* Date.now().toString() of the first, second, ... save: the prompt for the
\* name lies between two saves, so no two saves read the same time
SaveIds == <<"10001", "10002", "10003", "10004">>

\* Texts typed into the tempo field (e.target.value)
BpmInputs == { <<>>, <<"-", "6", "0">>, <<"3", "0", "0">> }

\* Pointer movements of a dial drag, <<deltaX, deltaY>>
DialDeltas == { <<1000, 0>>, <<0, 1000>>, <<3, 0>>, <<0, 3>>, <<2, 2>> }

----------------------------------------------------------------------------
(* Timers *)

RemoveAt(s, i) == SubSeq(s, 1, i - 1) \o SubSeq(s, i + 1, Len(s))

\* clearTimeout that cancels nothing
clearTimeoutNoop(tm, id) == tm

\* clearTimeout(timerIDRef.current) on the list of pending timers
clearTimeout(tm, id) == IF id = 0 THEN tm ELSE RemoveAt(tm, id)

\* timerIDRef after the timer at index i left the list
ShiftID(id, i) == IF id = i THEN 0 ELSE IF id > i THEN id - 1 ELSE id

\* NextTimer that takes the timer created last among those due at the same time
NextTimerLast(tm) ==
    CHOOSE i \in 1..Len(tm) :
        \A j \in 1..Len(tm) : tm[j].due > tm[i].due \/ (tm[j].due = tm[i].due /\ j <= i)

\* the pending timer that runs next: least due time, oldest first
NextTimer(tm) ==
    CHOOSE i \in 1..Len(tm) :
        \A j \in 1..Len(tm) : tm[j].due > tm[i].due \/ (tm[j].due = tm[i].due /\ j >= i)

----------------------------------------------------------------------------
(* Audio engine and scheduler *)

\* initAudio that generates a new noise buffer on every call
initAudioRegenerate ==
    [audioCtx |-> TRUE, noiseBuffer |-> noiseBuffer + 1]

\* initAudio(): the audio context exists afterwards, and the noise buffer is
\* generated if there is none yet (noiseBuffer counts the buffers generated and
\* names the latest, 0: none)
initAudio ==
    [audioCtx |-> TRUE, noiseBuffer |-> IF noiseBuffer = 0 THEN 1 ELSE noiseBuffer]

\* noiseBufferRef.current as a call of playSound reads it: playSound is only
\* reached from scheduler, which the effect that starts playback calls after
\* initAudio and which later runs from its timer
noiseBufferRef == initAudio.noiseBuffer

\* One source node of a render: node.start(start), node.stop(stop), the value
\* its gain ramps to (floor, in thousandths) and the buffer it plays (0: the
\* node is an oscillator)
SourceNode(node, t, duration, floor, buffer) ==
    [node |-> node, start |-> t, stop |-> Add(t, Num(duration)), floor |-> floor,
     buffer |-> buffer]

\* playSound with a snare noise burst that stops with the kick, 0.5 s after t
playSoundLongSnare(type, time) ==
    [type |-> type, time |-> time,
     sources |->
        IF type = "kick"
        THEN << SourceNode("osc", time, 500, 1, 0),
                SourceNode("clickOsc", time, 20, 1, 0) >>
        ELSE IF type = "snare"
        THEN << SourceNode("osc", time, 100, 10, 0),
                SourceNode("noise", time, 500, 10, noiseBufferRef) >>
        ELSE IF type = "hat"
        THEN << SourceNode("noise", time, 50, 10, noiseBufferRef) >>
        ELSE <<>>]

\* playSound(type, time): one render request to the audio backend, with the
\* source nodes it creates (times in ms)
playSound(type, time) ==
    [type |-> type, time |-> time,
     sources |->
        IF type = "kick"
        THEN << SourceNode("osc", time, 500, 1, 0),
                SourceNode("clickOsc", time, 20, 1, 0) >>
        ELSE IF type = "snare"
        THEN << SourceNode("osc", time, 100, 10, 0),
                SourceNode("noise", time, 200, 10, noiseBufferRef) >>
        ELSE IF type = "hat"
        THEN << SourceNode("noise", time, 50, 10, noiseBufferRef) >>
        ELSE <<>>]

\* SoundsOf with "else if" in place of the second and third "if"
SoundsOfFirstOnly(stepNumber, time) ==
    IF <<"high", stepNumber>> \in grid THEN <<playSound("hat", time)>>
    ELSE IF <<"mid", stepNumber>> \in grid THEN <<playSound("snare", time)>>
    ELSE IF <<"low", stepNumber>> \in grid THEN <<playSound("kick", time)>>
    ELSE <<>>

\* the playSound calls of scheduleNote, in the order of its three if statements
SoundsOf(stepNumber, time) ==
    (IF <<"high", stepNumber>> \in grid THEN <<playSound("hat", time)>> ELSE <<>>)
    \o (IF <<"mid", stepNumber>> \in grid THEN <<playSound("snare", time)>> ELSE <<>>)
    \o (IF <<"low", stepNumber>> \in grid THEN <<playSound("kick", time)>> ELSE <<>>)

\* scheduleNote that arms the playhead timer with visualDelay itself, without
\* Math.max(0, ...)
scheduleNoteNoMax(stepNumber, time) ==
    [step |-> stepNumber, time |-> time, now |-> currentTime,
     sounds |-> SoundsOf(stepNumber, time),
     delay |-> time.val - currentTime,
     bpm |-> bpm, subdivision |-> subdivision, beatsPerCycle |-> beatsPerCycle,
     session |-> session]

\* scheduleNote(stepNumber, time): the sounds rendered and the delay of the
\* playhead timer, Math.max(0, (time - currentTime) * 1000); the record also
\* notes the clock, tempo and meter at the call
scheduleNote(stepNumber, time) ==
    [step |-> stepNumber, time |-> time, now |-> currentTime,
     sounds |-> SoundsOf(stepNumber, time),
     delay |-> Max(0, time.val - currentTime),
     bpm |-> bpm, subdivision |-> subdivision, beatsPerCycle |-> beatsPerCycle,
     session |-> session]

\* const secondsPerBeat = 60.0 / bpmRef.current
secondsPerBeat == Divide(Num(SecondsPerMinute), bpm)
\* const secondsPerStep = secondsPerBeat / subRef.current
secondsPerStep == Divide(secondsPerBeat, Num(subdivision))

\* schedulerLoop with the step index advanced without the modulus
RECURSIVE schedulerLoopNoWrap(_, _, _, _)
schedulerLoopNoWrap(next, step, fuel, out) ==
    IF ~Less(next, Num(currentTime + scheduleAheadTime))
    THEN [nextNoteTime |-> next, stepRef |-> step, out |-> out, hung |-> FALSE]
    ELSE IF fuel = 0
    THEN [nextNoteTime |-> next, stepRef |-> step, out |-> out, hung |-> TRUE]
    ELSE schedulerLoopNoWrap(Add(next, secondsPerStep), step + 1,
                             fuel - 1, Append(out, scheduleNote(step, next)))

\* schedulerLoop with the cursor advanced by secondsPerBeat, the subdivision
\* ignored
RECURSIVE schedulerLoopPerBeat(_, _, _, _)
schedulerLoopPerBeat(next, step, fuel, out) ==
    IF ~Less(next, Num(currentTime + scheduleAheadTime))
    THEN [nextNoteTime |-> next, stepRef |-> step, out |-> out, hung |-> FALSE]
    ELSE IF fuel = 0
    THEN [nextNoteTime |-> next, stepRef |-> step, out |-> out, hung |-> TRUE]
    ELSE schedulerLoopPerBeat(Add(next, secondsPerBeat), (step + 1) % beatsPerCycle,
                              fuel - 1, Append(out, scheduleNote(step, next)))

\* schedulerLoop with <= in place of < in the condition of the loop
RECURSIVE schedulerLoopInclusive(_, _, _, _)
schedulerLoopInclusive(next, step, fuel, out) ==
    IF Less(Num(currentTime + scheduleAheadTime), next)
    THEN [nextNoteTime |-> next, stepRef |-> step, out |-> out, hung |-> FALSE]
    ELSE IF fuel = 0
    THEN [nextNoteTime |-> next, stepRef |-> step, out |-> out, hung |-> TRUE]
    ELSE schedulerLoopInclusive(Add(next, secondsPerStep), (step + 1) % beatsPerCycle,
                                fuel - 1, Append(out, scheduleNote(step, next)))

\* the while loop of scheduler, from cursor (next, step); fuel iterations are
\* unrolled, and a loop whose condition still holds then is reported as hung
RECURSIVE schedulerLoop(_, _, _, _)
schedulerLoop(next, step, fuel, out) ==
    IF ~Less(next, Num(currentTime + scheduleAheadTime))
    THEN [nextNoteTime |-> next, stepRef |-> step, out |-> out, hung |-> FALSE]
    ELSE IF fuel = 0
    THEN [nextNoteTime |-> next, stepRef |-> step, out |-> out, hung |-> TRUE]
    ELSE schedulerLoop(Add(next, secondsPerStep), (step + 1) % beatsPerCycle,
                       fuel - 1, Append(out, scheduleNote(step, next)))

\* the playhead timer scheduleNote arms for an emitted onset
VisualTimer(o) ==
    [kind |-> "visual", step |-> o.step, due |-> o.now + o.delay, session |-> o.session]

\* setTimeout(scheduler, lookahead)
PollTimer ==
    [kind |-> "scheduler", step |-> -1, due |-> currentTime + lookahead, session |-> session]

\* scheduler without the test of isPlayingRef.current
schedulerAlways(playing, next, step, tm, id) ==
    LET r  == schedulerLoop(next, step, MaxLoop, <<>>)
        tv == tm \o [k \in 1..Len(r.out) |-> VisualTimer(r.out[k])]
    IN  IF r.hung
        THEN [nextNoteTime |-> r.nextNoteTime, stepRef |-> r.stepRef, timers |-> tv,
              timerID |-> id, out |-> r.out, hung |-> TRUE]
        ELSE [nextNoteTime |-> r.nextNoteTime, stepRef |-> r.stepRef,
              timers |-> Append(tv, PollTimer), timerID |-> Len(tv) + 1,
              out |-> r.out, hung |-> FALSE]

\* scheduler(), called with isPlayingRef.current = playing, the cursor
\* (next, step), the pending timers tm and timerIDRef.current = id
scheduler(playing, next, step, tm, id) ==
    IF playing
    THEN LET r  == schedulerLoop(next, step, MaxLoop, <<>>)
             tv == tm \o [k \in 1..Len(r.out) |-> VisualTimer(r.out[k])]
         IN  IF r.hung
             THEN [nextNoteTime |-> r.nextNoteTime, stepRef |-> r.stepRef, timers |-> tv,
                   timerID |-> id, out |-> r.out, hung |-> TRUE]
             ELSE [nextNoteTime |-> r.nextNoteTime, stepRef |-> r.stepRef,
                   timers |-> Append(tv, PollTimer), timerID |-> Len(tv) + 1,
                   out |-> r.out, hung |-> FALSE]
    ELSE [nextNoteTime |-> next, stepRef |-> step, timers |-> tm, timerID |-> id,
          out |-> <<>>, hung |-> FALSE]

\* visualCallback that shows the cursor's step index
visualCallbackCursor(stepNumber) == IF isPlaying THEN stepRef ELSE currentStep

\* visualCallback without the test of isPlayingRef.current
visualCallbackUnchecked(stepNumber) == stepNumber

\* the callback of scheduleNote's setTimeout: the new value of currentStep
visualCallback(stepNumber) == IF isPlaying THEN stepNumber ELSE currentStep

\* schedulerThrows for a scheduler that reads the clock before it tests
\* isPlayingRef.current
schedulerThrowsUnguarded(playing) == ~audioCtx

\* scheduler() reads audioCtxRef.current.currentTime inside "if
\* (isPlayingRef.current)": a TypeError when audioCtxRef.current is null
schedulerThrows(playing) == playing /\ ~audioCtx

\* startCursor without the reset: the cursor is left as the last session left it
startCursorStale == [nextNoteTime |-> nextNoteTime, stepRef |-> stepRef]

\* useEffect(..., [isPlaying]) when isPlaying became true: the cursor that
\* stepRef.current = 0 and nextNoteTimeRef.current = currentTime set
startCursor == [nextNoteTime |-> Num(currentTime), stepRef |-> 0]

\* stopEffect without the clearTimeout calls
stopEffectNoClear ==
    [timers |-> timers, timerID |-> timerID, currentStep |-> -1]

\* useEffect(..., [isPlaying]) when isPlaying became false: the cleanup of the
\* previous run (clearTimeout) and then the else branch
stopEffect ==
    [timers |-> clearTimeout(timers, timerID), timerID |-> 0, currentStep |-> -1]

----------------------------------------------------------------------------
(* Tempo, meter and preset handlers: the value each one writes *)

\* handleBpmChange: the new bpm for the field text `value`
handleBpmChange(value) ==
    LET v == parseInt(value) IN
    IF ~isNaN(v) THEN Num(Min(v.val, MAX_BPM))
    ELSE IF value = <<>> THEN EmptyString
    ELSE bpm

\* handleBpmBlur without the test bpm < MIN_BPM
handleBpmBlurNoFloor ==
    IF bpm = EmptyString \/ isNaN(bpm) THEN Num(MIN_BPM) ELSE bpm

\* handleBpmBlur: the new bpm
handleBpmBlur ==
    IF bpm = EmptyString \/ isNaN(bpm) \/ ToNumber(bpm).val < MIN_BPM
    THEN Num(MIN_BPM) ELSE bpm

\* updateBpmFromDelta without the clamp: Math.round(n)
updateBpmFromDeltaUnclamped(deltaX, deltaY) ==
    LET c == IF bpm = EmptyString \/ isNaN(bpm) THEN Num(MIN_BPM) ELSE bpm
        n2 == IF c.type = "text"
              THEN StringToNumber2(c.val \o NumberToString2(deltaX - deltaY))
              ELSE Num(2 * c.val + (deltaX - deltaY))
    IN  IF n2.type = "NaN" THEN NaN ELSE Num((n2.val + 1) \div 2)

\* updateBpmFromDelta: the new bpm for a pointer movement (deltaX, deltaY).
\* n = c + (deltaX - deltaY) * 0.5 is held doubled (n2); when c is a string,
\* + appends the text of the number to it and Math.max converts the result
\* back.  Math.max and Math.min of NaN are NaN, Math.round(x) is floor(x + 0.5)
updateBpmFromDelta(deltaX, deltaY) ==
    LET c == IF bpm = EmptyString \/ isNaN(bpm) THEN Num(MIN_BPM) ELSE bpm
        n2 == IF c.type = "text"
              THEN StringToNumber2(c.val \o NumberToString2(deltaX - deltaY))
              ELSE Num(2 * c.val + (deltaX - deltaY))
    IN  IF n2.type = "NaN" THEN NaN
        ELSE Num((Min(Max(n2.val, 2 * MIN_BPM), 2 * MAX_BPM) + 1) \div 2)

\* toggleGridParams that sets the key to true whatever it was
toggleGridParamsSetOnly(row, col) == grid \cup {<<row, col>>}

\* toggleGridParams(row, col): the new grid, { ...prev, [key]: !prev[key] }
toggleGridParams(row, col) ==
    IF <<row, col>> \in grid THEN grid \ {<<row, col>>} ELSE grid \cup {<<row, col>>}

\* handleDeletePreset: presets.filter(p => p.id !== selectedPresetId)
handleDeletePreset ==
    LET keep == {i \in 1..Len(presets) : presets[i].id # selectedPresetId}
        nth(k) == CHOOSE i \in keep : Cardinality({j \in keep : j < i}) = k - 1
    IN  [k \in 1..Cardinality(keep) |-> presets[nth(k)]]

\* handleSavePreset with a name entered: the preset appended to the list (its
\* name is left out, nothing reads it)
handleSavePreset ==
    [id |-> SaveIds[saves + 1], bpm |-> bpm, beatsPerCycle |-> beatsPerCycle,
     subdivision |-> subdivision, grid |-> grid]

\* the meter spinners
beatsUp == Min(beatsPerCycle + 1, MAX_BEATS)
beatsDown == Max(beatsPerCycle - 1, 1)
subdivisionUp == Min(subdivision + 1, MAX_SUBDIVISION)
subdivisionDown == Max(subdivision - 1, 1)

----------------------------------------------------------------------------
(* Tap tempo: handleTap, the updater passed to setTapTimes *)

RECURSIVE SumSeq(_)
\* intervals.reduce((a, b) => a + b, 0)
SumSeq(q) == IF q = <<>> THEN 0 ELSE q[1] + SumSeq(Tail(q))

\* Math.round(p / q) for integers p and q, q # 0: floor(p / q + 0.5)
MathRound(p, q) ==
    IF q > 0 THEN (2 * p + q) \div (2 * q)
    ELSE (q - 2 * p) \div (2 * (0 - q))

\* Math.max and Math.min on JavaScript numbers
MathMax(a, b) == IF Less(a, b) THEN b ELSE a
MathMin(a, b) == IF Less(b, a) THEN b ELSE a

\* tapTimedOut with >= in place of >
tapTimedOutInclusive(prev, now) ==
    Len(prev) > 0 /\ now - prev[Len(prev)] >= TAP_TIMEOUT

\* the timeout test: prev.length > 0 && now - prev[prev.length - 1] > 3000
tapTimedOut(prev, now) == Len(prev) > 0 /\ now - prev[Len(prev)] > TAP_TIMEOUT

\* tapWindow with pop() in place of shift(): the newest entry is dropped
tapWindowKeepOldest(prev, now) ==
    LET appended == Append(prev, now) IN
    IF Len(appended) > TAP_WINDOW THEN SubSeq(appended, 1, TAP_WINDOW) ELSE appended

\* newTaps: [...prev, now], and shift() when that has more than 5 entries
tapWindow(prev, now) ==
    LET appended == Append(prev, now) IN
    IF Len(appended) > TAP_WINDOW THEN Tail(appended) ELSE appended

\* the intervals array: newTaps[i + 1] - newTaps[i]
tapIntervals(newTaps) == [i \in 1..(Len(newTaps) - 1) |-> newTaps[i + 1] - newTaps[i]]

\* tapNewBpm with Math.floor in place of Math.round
tapNewBpmFloor(newTaps) ==
    LET sum == SumSeq(tapIntervals(newTaps)) IN
    IF sum = 0 THEN Infinity
    ELSE IF sum > 0 THEN Num((MsPerMinute * (Len(newTaps) - 1)) \div sum)
    ELSE Num((0 - MsPerMinute * (Len(newTaps) - 1)) \div (0 - sum))

\* newBpm = Math.round(60000 / avgInterval), with avgInterval = sum / length:
\* 60000 / (sum / n) is 60000 * n / sum, and Infinity when the sum is 0
tapNewBpm(newTaps) ==
    LET intervals == tapIntervals(newTaps)
        sum == SumSeq(intervals)
    IN  IF sum = 0 THEN Infinity
        ELSE Num(MathRound(MsPerMinute * Len(intervals), sum))

\* tapSafeBpm without the clamp
tapSafeBpmUnclamped(newTaps) == tapNewBpm(newTaps)

\* safeBpm = Math.min(Math.max(newBpm, MIN_BPM), MAX_BPM)
tapSafeBpm(newTaps) ==
    MathMin(MathMax(tapNewBpm(newTaps), Num(MIN_BPM)), Num(MAX_BPM))

\* handleTap that estimates the tempo from two taps on
handleTapEager(prev, now) ==
    IF tapTimedOut(prev, now) THEN [tapTimes |-> <<now>>, bpm |-> bpm]
    ELSE LET newTaps == tapWindow(prev, now) IN
         [tapTimes |-> newTaps,
          bpm |-> IF Len(newTaps) >= 2 THEN tapSafeBpm(newTaps) ELSE bpm]

\* the updater of handleTap for the window prev and Date.now() = now: the new
\* window and the tempo after it
handleTap(prev, now) ==
    IF tapTimedOut(prev, now) THEN [tapTimes |-> <<now>>, bpm |-> bpm]
    ELSE LET newTaps == tapWindow(prev, now) IN
         [tapTimes |-> newTaps,
          bpm |-> IF Len(newTaps) >= TAP_WINDOW THEN tapSafeBpm(newTaps) ELSE bpm]

----------------------------------------------------------------------------
(* Initial state: the component as mounted with an empty localStorage *)

NoOnset ==
    [step |-> -1, time |-> Num(0), next |-> Num(0), session |-> 0]

NoToggle == [row |-> "none", col |-> -1, on |-> FALSE, session |-> 0]

Init ==
    /\ presets = <<DEFAULT_PRESET>>
    /\ selectedPresetId = "default"
    /\ bpm = DEFAULT_PRESET.bpm
    /\ beatsPerCycle = DEFAULT_PRESET.beatsPerCycle
    /\ subdivision = OrOne(DEFAULT_PRESET.subdivision)
    /\ grid = DEFAULT_PRESET.grid
    /\ isPlaying = FALSE
    /\ currentStep = -1
    /\ audioCtx = FALSE
    /\ currentTime = 0
    /\ nextNoteTime = Num(0)
    /\ stepRef = 0
    /\ timers = <<>>
    /\ timerID = 0
    /\ hung = FALSE
    /\ op = "mount"
    /\ emitted = <<>>
    /\ prevOnset = NoOnset
    /\ session = 1
    /\ beatsFixed = TRUE
    /\ stoppedBy = "none"
    /\ tapTimes = <<>>
    /\ tapLog = <<>>
    /\ tapReset = 1
    /\ lastToggle = NoToggle
    /\ ticksInTime = TRUE
    /\ noiseBuffer = 0
    /\ threw = "none"
    /\ dialPrev = NaN
    /\ saves = 0
    /\ asked = "none"

----------------------------------------------------------------------------
(* Actions *)

\* the component is mounted and its thread is not stuck in the scheduler
Running == ~hung /\ threw = "none"

\* (60 / bpm) / subdivision for the tempo and meter noted in onset o
StepOf(o) == Divide(Divide(Num(SecondsPerMinute), o.bpm), Num(o.subdivision))

\* what prevOnset keeps of an onset: its step and time, and the onset time
\* that follows from the tempo and meter at its emission
Cursor(o) ==
    [step |-> o.step, time |-> o.time, next |-> Add(o.time, StepOf(o)),
     session |-> o.session]

\* the observation variables after handler `name` emitted the onsets `out`
Observe(name, out) ==
    /\ op' = name
    /\ emitted' = out
    /\ prevOnset' = IF emitted # <<>> THEN Cursor(emitted[Len(emitted)]) ELSE prevOnset

\* the playback state after handler `name` made isPlaying false
StopPlayback(name) ==
    /\ isPlaying' = FALSE
    /\ stoppedBy' = name
    /\ timers' = stopEffect.timers
    /\ timerID' = stopEffect.timerID
    /\ currentStep' = stopEffect.currentStep
    /\ session' = session + 1
    /\ UNCHANGED <<audioCtx, nextNoteTime, stepRef, hung, ticksInTime>>

\* a handler that restarts the cycle: the cursor's step index goes back to 0
PlaybackCursorReset ==
    /\ stepRef' = 0
    /\ UNCHANGED <<isPlaying, timers, timerID, currentStep, session, audioCtx,
                   nextNoteTime, hung, stoppedBy, ticksInTime>>

PlaybackUnchanged ==
    UNCHANGED <<isPlaying, timers, timerID, currentStep, session, audioCtx,
                nextNoteTime, stepRef, hung, stoppedBy, ticksInTime>>

\* play button while stopped: setIsPlaying(true), then the effect: initAudio,
\* the cursor reset and the first call of scheduler
Start ==
    /\ Running /\ ~isPlaying /\ session <= MaxSessions
    /\ LET r == scheduler(TRUE, startCursor.nextNoteTime, startCursor.stepRef,
                          clearTimeout(timers, timerID), 0) IN
        /\ isPlaying' = TRUE
        /\ audioCtx' = initAudio.audioCtx
        /\ noiseBuffer' = initAudio.noiseBuffer
        /\ currentStep' = 0
        /\ nextNoteTime' = r.nextNoteTime
        /\ stepRef' = r.stepRef
        /\ timers' = r.timers
        /\ timerID' = r.timerID
        /\ hung' = r.hung
        /\ Observe("start", r.out)
    /\ beatsFixed' = TRUE
    /\ ticksInTime' = TRUE
    /\ UNCHANGED <<bpm, beatsPerCycle, subdivision, grid, presets, selectedPresetId,
                   currentTime, session, stoppedBy, threw, dialPrev, saves, asked>>
    /\ UNCHANGED tapVars
    /\ UNCHANGED lastToggle

\* the play button pressed for the first time
StartOnce == session = 1 /\ Start

\* play button while stopped, and "new AudioContext()" throws in initAudio
\* (no Web Audio): the effect ends before the cursor reset and scheduler(),
\* and the uncaught error unmounts the component
StartFails ==
    /\ Running /\ ~isPlaying /\ ~audioCtx /\ session <= MaxSessions
    /\ isPlaying' = TRUE
    /\ threw' = "initAudio"
    /\ timers' = clearTimeout(timers, timerID)
    /\ Observe("startFailed", <<>>)
    /\ UNCHANGED <<bpm, beatsPerCycle, subdivision, grid, presets, selectedPresetId,
                   currentTime, session, stoppedBy, audioCtx, noiseBuffer, currentStep,
                   nextNoteTime, stepRef, timerID, hung, beatsFixed, ticksInTime,
                   dialPrev, saves, asked>>
    /\ UNCHANGED tapVars
    /\ UNCHANGED lastToggle

\* play button while playing: setIsPlaying(false), then the effect
Stop ==
    /\ Running /\ isPlaying
    /\ StopPlayback("stop")
    /\ Observe("stop", <<>>)
    /\ UNCHANGED <<bpm, beatsPerCycle, subdivision, grid, presets, selectedPresetId,
                   currentTime, beatsFixed>>
    /\ UNCHANGED tapVars
    /\ UNCHANGED lastToggle
    /\ UNCHANGED <<noiseBuffer, threw, dialPrev, saves, asked>>

\* the audio clock (and with it the timers' clock) advances
AdvanceClock ==
    /\ Running /\ audioCtx
    /\ \E d \in ClockSteps :
        /\ currentTime + d <= MaxClock
        /\ currentTime' = currentTime + d
    /\ Observe("clock", <<>>)
    /\ PlaybackUnchanged
    /\ UNCHANGED <<bpm, beatsPerCycle, subdivision, grid, presets, selectedPresetId,
                   beatsFixed>>
    /\ UNCHANGED tapVars
    /\ UNCHANGED lastToggle
    /\ UNCHANGED <<noiseBuffer, threw, dialPrev, saves, asked>>

\* scheduler() runs as `name` with the pending timers tm and
\* timerIDRef.current = id
RunScheduler(name, tm, id) ==
    IF schedulerThrows(isPlaying)
    THEN /\ threw' = "scheduler"
         /\ timers' = tm
         /\ timerID' = id
         /\ Observe(name, <<>>)
         /\ UNCHANGED <<nextNoteTime, stepRef, hung>>
    ELSE LET r == scheduler(isPlaying, nextNoteTime, stepRef, tm, id) IN
         /\ nextNoteTime' = r.nextNoteTime
         /\ stepRef' = r.stepRef
         /\ timers' = r.timers
         /\ timerID' = r.timerID
         /\ hung' = r.hung
         /\ Observe(name, r.out)
         /\ threw' = threw

\* the poll timer fires: scheduler()
SchedulerTimer ==
    /\ Running /\ timers # <<>>
    /\ LET i == NextTimer(timers) IN
        /\ timers[i].kind = "scheduler"
        /\ timers[i].due <= currentTime
        /\ RunScheduler("scheduler", RemoveAt(timers, i), ShiftID(timerID, i))
        /\ ticksInTime' = (ticksInTime /\
                currentTime - (timers[i].due - lookahead) < scheduleAheadTime)
    /\ UNCHANGED <<bpm, beatsPerCycle, subdivision, grid, presets, selectedPresetId,
                   isPlaying, currentStep, audioCtx, currentTime, session, beatsFixed,
                   stoppedBy, noiseBuffer, dialPrev, saves, asked>>
    /\ UNCHANGED tapVars
    /\ UNCHANGED lastToggle

\* a playhead timer fires: if (isPlayingRef.current) setCurrentStep(stepNumber)
PlayheadTimer ==
    /\ Running /\ timers # <<>>
    /\ LET i == NextTimer(timers) IN
        /\ timers[i].kind = "visual"
        /\ timers[i].due <= currentTime
        /\ currentStep' = visualCallback(timers[i].step)
        /\ timers' = RemoveAt(timers, i)
        /\ timerID' = ShiftID(timerID, i)
    /\ Observe("playhead", <<>>)
    /\ UNCHANGED <<bpm, beatsPerCycle, subdivision, grid, presets, selectedPresetId,
                   isPlaying, audioCtx, currentTime, nextNoteTime, stepRef, hung,
                   session, beatsFixed, stoppedBy, ticksInTime>>
    /\ UNCHANGED tapVars
    /\ UNCHANGED lastToggle
    /\ UNCHANGED <<noiseBuffer, threw, dialPrev, saves, asked>>

\* typing in the tempo field
HandleBpmChange ==
    /\ Running
    /\ \E value \in BpmInputs : bpm' = handleBpmChange(value)
    /\ Observe("handleBpmChange", <<>>)
    /\ PlaybackUnchanged
    /\ UNCHANGED <<beatsPerCycle, subdivision, grid, presets, selectedPresetId,
                   currentTime, beatsFixed>>
    /\ UNCHANGED tapVars
    /\ UNCHANGED lastToggle
    /\ UNCHANGED <<noiseBuffer, threw, dialPrev, saves, asked>>

\* the tempo field loses the focus
HandleBpmBlur ==
    /\ Running
    /\ bpm' = handleBpmBlur
    /\ Observe("handleBpmBlur", <<>>)
    /\ PlaybackUnchanged
    /\ UNCHANGED <<beatsPerCycle, subdivision, grid, presets, selectedPresetId,
                   currentTime, beatsFixed>>
    /\ UNCHANGED tapVars
    /\ UNCHANGED lastToggle
    /\ UNCHANGED <<noiseBuffer, threw, dialPrev, saves, asked>>

\* a pointer movement while the dial is dragged
DialDrag ==
    /\ Running
    /\ \E d \in DialDeltas : bpm' = updateBpmFromDelta(d[1], d[2])
    /\ dialPrev' = bpm
    /\ Observe("updateBpmFromDelta", <<>>)
    /\ PlaybackUnchanged
    /\ UNCHANGED <<beatsPerCycle, subdivision, grid, presets, selectedPresetId,
                   currentTime, beatsFixed>>
    /\ UNCHANGED tapVars
    /\ UNCHANGED lastToggle
    /\ UNCHANGED <<noiseBuffer, threw, saves, asked>>

\* the four spinner buttons
BeatsUp ==
    /\ Running /\ beatsPerCycle < MaxBeats
    /\ beatsPerCycle' = beatsUp
    /\ beatsFixed' = (beatsFixed /\ beatsPerCycle' = beatsPerCycle)
    /\ Observe("beatsUp", <<>>)
    /\ PlaybackUnchanged
    /\ UNCHANGED <<bpm, subdivision, grid, presets, selectedPresetId, currentTime>>
    /\ UNCHANGED tapVars
    /\ UNCHANGED lastToggle
    /\ UNCHANGED <<noiseBuffer, threw, dialPrev, saves, asked>>

BeatsDown ==
    /\ Running
    /\ beatsPerCycle' = beatsDown
    /\ beatsFixed' = (beatsFixed /\ beatsPerCycle' = beatsPerCycle)
    /\ Observe("beatsDown", <<>>)
    /\ PlaybackUnchanged
    /\ UNCHANGED <<bpm, subdivision, grid, presets, selectedPresetId, currentTime>>
    /\ UNCHANGED tapVars
    /\ UNCHANGED lastToggle
    /\ UNCHANGED <<noiseBuffer, threw, dialPrev, saves, asked>>

SubdivisionUp ==
    /\ Running /\ subdivision < MaxSub
    /\ subdivision' = subdivisionUp
    /\ Observe("subdivisionUp", <<>>)
    /\ PlaybackUnchanged
    /\ UNCHANGED <<bpm, beatsPerCycle, grid, presets, selectedPresetId, currentTime,
                   beatsFixed>>
    /\ UNCHANGED tapVars
    /\ UNCHANGED lastToggle
    /\ UNCHANGED <<noiseBuffer, threw, dialPrev, saves, asked>>

SubdivisionDown ==
    /\ Running
    /\ subdivision' = subdivisionDown
    /\ Observe("subdivisionDown", <<>>)
    /\ PlaybackUnchanged
    /\ UNCHANGED <<bpm, beatsPerCycle, grid, presets, selectedPresetId, currentTime,
                   beatsFixed>>
    /\ UNCHANGED tapVars
    /\ UNCHANGED lastToggle
    /\ UNCHANGED <<noiseBuffer, threw, dialPrev, saves, asked>>

\* a load that leaves playback running
LoadPresetKeepsPlaying(p, name) ==
    /\ selectedPresetId' = p.id
    /\ bpm' = p.bpm
    /\ beatsPerCycle' = p.beatsPerCycle
    /\ subdivision' = OrOne(p.subdivision)
    /\ grid' = p.grid
    /\ beatsFixed' = (beatsFixed /\ beatsPerCycle' = beatsPerCycle)
    /\ lastToggle' = NoToggle
    /\ asked' = p.id
    /\ PlaybackUnchanged

\* handler `name` loads the tempo, meter and pattern of preset p and stops
\* playback
LoadPreset(p, name) ==
    /\ selectedPresetId' = p.id
    /\ bpm' = p.bpm
    /\ beatsPerCycle' = p.beatsPerCycle
    /\ subdivision' = OrOne(p.subdivision)
    /\ grid' = p.grid
    /\ beatsFixed' = (beatsFixed /\ beatsPerCycle' = beatsPerCycle)
    /\ lastToggle' = NoToggle
    /\ asked' = p.id
    /\ IF isPlaying THEN StopPlayback(name) ELSE PlaybackUnchanged

\* a preset is chosen in the select box
HandlePresetChange ==
    /\ Running
    /\ \E i \in 1..Len(presets) :
        /\ FindPreset(presets, presets[i].id) = i
        /\ LoadPreset(presets[i], "handlePresetChange")
    /\ Observe("handlePresetChange", <<>>)
    /\ UNCHANGED <<presets, currentTime>>
    /\ UNCHANGED tapVars
    /\ UNCHANGED <<noiseBuffer, threw, dialPrev, saves>>

\* the select box reports an id that no preset has: find gives undefined and
\* the handler does nothing
HandleUnknownPresetChange ==
    /\ Running
    /\ \E id \in UnknownIds :
        /\ FindPreset(presets, id) = 0
        /\ asked' = id
    /\ Observe("handlePresetChange", <<>>)
    /\ PlaybackUnchanged
    /\ UNCHANGED <<bpm, beatsPerCycle, subdivision, grid, presets, selectedPresetId,
                   beatsFixed, lastToggle, currentTime, noiseBuffer, threw,
                   dialPrev, saves>>
    /\ UNCHANGED tapVars

\* the delete button, confirmed: the selected preset is removed and the first
\* of the others is loaded; playback is not stopped
HandleDeletePreset ==
    /\ Running /\ Len(presets) > 1
    /\ LET newPresets == handleDeletePreset
           next == newPresets[1]
       IN  /\ newPresets # <<>>
           /\ presets' = newPresets
           /\ selectedPresetId' = next.id
           /\ bpm' = next.bpm
           /\ beatsPerCycle' = next.beatsPerCycle
           /\ subdivision' = OrOne(next.subdivision)
           /\ grid' = next.grid
    /\ beatsFixed' = (beatsFixed /\ beatsPerCycle' = beatsPerCycle)
    /\ lastToggle' = NoToggle
    /\ Observe("handleDeletePreset", <<>>)
    /\ PlaybackUnchanged
    /\ UNCHANGED <<currentTime, noiseBuffer, threw, dialPrev, saves, asked>>
    /\ UNCHANGED tapVars

\* the delete button, confirmed, when every preset has the selected id:
\* setPresets([]) is queued, then next.id of newPresets[0] = undefined throws
\* and the handler ends; the render that follows reads presets[0].bpm of the
\* empty list and throws as well, which ends the component
HandleDeleteAll ==
    /\ Running /\ Len(presets) > 1
    /\ handleDeletePreset = <<>>
    /\ presets' = handleDeletePreset
    /\ threw' = "render"
    /\ Observe("handleDeletePreset", <<>>)
    /\ PlaybackUnchanged
    /\ UNCHANGED <<selectedPresetId, bpm, beatsPerCycle, subdivision, grid,
                   beatsFixed, lastToggle, currentTime, noiseBuffer, dialPrev, saves, asked>>
    /\ UNCHANGED tapVars

\* the save button with a name entered in the prompt: the current tempo,
\* meter and pattern are appended as a new preset, which becomes the selection
HandleSavePreset ==
    /\ Running /\ saves < MaxSaves
    /\ presets' = Append(presets, handleSavePreset)
    /\ selectedPresetId' = handleSavePreset.id
    /\ saves' = saves + 1
    /\ Observe("handleSavePreset", <<>>)
    /\ PlaybackUnchanged
    /\ UNCHANGED <<bpm, beatsPerCycle, subdivision, grid, beatsFixed, lastToggle,
                   currentTime, noiseBuffer, threw, dialPrev, asked>>
    /\ UNCHANGED tapVars

\* a preset file is imported: reader.onload with a non-empty array
FileImport(files) ==
    /\ \E loaded \in files :
        LET normalized == [k \in 1..Len(loaded) |-> Normalize(loaded[k])] IN
        /\ presets' = normalized
        /\ LoadPreset(normalized[1], "handleFileImport")
    /\ Observe("handleFileImport", <<>>)
    /\ UNCHANGED <<currentTime>>
    /\ UNCHANGED tapVars
    /\ UNCHANGED <<noiseBuffer, threw, dialPrev, saves>>

\* a file is chosen in the import dialog and read
HandleFileImport ==
    /\ Running
    /\ FileImport(ImportFiles)

\* a file that is not a non-empty array, or not JSON at all, is read: the
\* handler shows an alert and sets nothing
HandleRejectedFileImport ==
    /\ Running
    /\ \E f \in RejectedFiles : ~Accepted(f)
    /\ asked' = "none"
    /\ Observe("handleFileImport", <<>>)
    /\ PlaybackUnchanged
    /\ UNCHANGED <<bpm, beatsPerCycle, subdivision, grid, presets, selectedPresetId,
                   beatsFixed, lastToggle, currentTime, noiseBuffer, threw,
                   dialPrev, saves>>
    /\ UNCHANGED tapVars

\* the same with the file whose presets have no id
HandleTwinFileImport ==
    /\ Running
    /\ FileImport({FileTwins})

\* the same with the file that gives the tempo as a string
HandleTextFileImport ==
    /\ Running
    /\ FileImport({FileText})

\* scheduler() called directly, at any time (not by the program itself)
SchedulerCall ==
    /\ Running /\ Len(timers) < MaxTimers
    /\ RunScheduler("call", timers, timerID)
    /\ UNCHANGED <<bpm, beatsPerCycle, subdivision, grid, presets, selectedPresetId,
                   isPlaying, currentStep, audioCtx, currentTime, session, beatsFixed,
                   stoppedBy, ticksInTime, noiseBuffer, dialPrev, saves, asked>>
    /\ UNCHANGED tapVars
    /\ UNCHANGED lastToggle

\* a click that writes the new grid into the selected preset as well, as if
\* the grid loaded from a preset were changed in place
ToggleCellShared(row, col) ==
    /\ col < beatsPerCycle
    /\ grid' = toggleGridParams(row, col)
    /\ lastToggle' = [row |-> row, col |-> col, on |-> <<row, col>> \notin grid,
                      session |-> IF isPlaying THEN session ELSE 0]
    /\ presets' = [i \in 1..Len(presets) |->
                      IF presets[i].id = selectedPresetId
                      THEN [presets[i] EXCEPT !.grid = grid']
                      ELSE presets[i]]
    /\ Observe("toggleGridParams", <<>>)
    /\ PlaybackUnchanged
    /\ UNCHANGED <<bpm, beatsPerCycle, subdivision, selectedPresetId,
                   currentTime, beatsFixed>>
    /\ UNCHANGED tapVars
    /\ UNCHANGED <<noiseBuffer, threw, dialPrev, saves, asked>>

\* a click on the cell (row, col) of the grid: setGrid with a new object, the
\* object that a preset holds is not written
ToggleCell(row, col) ==
    /\ col < beatsPerCycle
    /\ grid' = toggleGridParams(row, col)
    /\ lastToggle' = [row |-> row, col |-> col, on |-> <<row, col>> \notin grid,
                      session |-> IF isPlaying THEN session ELSE 0]
    /\ Observe("toggleGridParams", <<>>)
    /\ PlaybackUnchanged
    /\ UNCHANGED <<bpm, beatsPerCycle, subdivision, presets, selectedPresetId,
                   currentTime, beatsFixed>>
    /\ UNCHANGED tapVars
    /\ UNCHANGED <<noiseBuffer, threw, dialPrev, saves, asked>>

\* a click on a cell of the grid
ToggleGridParams ==
    /\ Running
    /\ \E r \in 1..Len(Voices), col \in ToggleCols : ToggleCell(Voices[r], col)

\* a click on a cell of the kick row
ToggleKickCell ==
    /\ Running
    /\ \E col \in ToggleCols : ToggleCell("low", col)

\* Date.now() at the last tap
LastTapRead == IF tapLog = <<>> THEN DateEpoch ELSE tapLog[Len(tapLog)]

\* the tap button
HandleTap ==
    /\ Running /\ Len(tapLog) < MaxTaps
    /\ \E gap \in TapGaps :
        LET now == LastTapRead + gap
            r == handleTap(tapTimes, now)
        IN  /\ tapTimes' = r.tapTimes
            /\ bpm' = r.bpm
            /\ tapLog' = Append(tapLog, now)
            /\ tapReset' = IF tapTimedOut(tapTimes, now) THEN Len(tapLog) + 1 ELSE tapReset
    /\ Observe("handleTap", <<>>)
    /\ PlaybackUnchanged
    /\ UNCHANGED <<beatsPerCycle, subdivision, grid, presets, selectedPresetId,
                   currentTime, beatsFixed>>
    /\ UNCHANGED lastToggle
    /\ UNCHANGED <<noiseBuffer, threw, dialPrev, saves, asked>>

----------------------------------------------------------------------------
(* Specifications *)

\* one playing session, the tempo field and the subdivision spinner
Next ==
    \/ StartOnce
    \/ Stop
    \/ AdvanceClock
    \/ SchedulerTimer
    \/ PlayheadTimer
    \/ HandleBpmChange
    \/ HandleBpmBlur
    \/ SubdivisionUp
    \/ SubdivisionDown

Spec == Init /\ [][Next]_vars

\* one playing session, the beats spinner and the tempo field
NextMeter ==
    \/ StartOnce
    \/ Stop
    \/ AdvanceClock
    \/ SchedulerTimer
    \/ PlayheadTimer
    \/ BeatsUp
    \/ BeatsDown
    \/ HandleBpmChange

SpecMeter == Init /\ [][NextMeter]_vars

\* several playing sessions and the preset handlers
NextSession ==
    \/ Start
    \/ Stop
    \/ AdvanceClock
    \/ SchedulerTimer
    \/ PlayheadTimer
    \/ HandlePresetChange
    \/ HandleFileImport

SpecSession == Init /\ [][NextSession]_vars

\* one playing session, the tempo field, and a caller that invokes
\* scheduler() whenever it likes
NextCall ==
    \/ StartOnce
    \/ Stop
    \/ AdvanceClock
    \/ SchedulerTimer
    \/ PlayheadTimer
    \/ HandleBpmChange
    \/ SchedulerCall

SpecCall == Init /\ [][NextCall]_vars

\* the tap button and the play button
NextTap ==
    \/ HandleTap
    \/ StartOnce
    \/ Stop

SpecTap == Init /\ [][NextTap]_vars

\* one playing session, the grid and the subdivision spinner
NextGrid ==
    \/ StartOnce
    \/ AdvanceClock
    \/ SchedulerTimer
    \/ PlayheadTimer
    \/ SubdivisionUp
    \/ ToggleGridParams

SpecGrid == Init /\ [][NextGrid]_vars

\* several playing sessions, a browser in which the audio context may not
\* be available, and a caller that invokes scheduler() whenever it likes
NextInit ==
    \/ Start
    \/ StartFails
    \/ Stop
    \/ AdvanceClock
    \/ SchedulerTimer
    \/ PlayheadTimer
    \/ SchedulerCall

SpecInit == Init /\ [][NextInit]_vars

\* the meter spinners and the preset handlers, without playback
NextPreset ==
    \/ BeatsUp
    \/ BeatsDown
    \/ SubdivisionUp
    \/ SubdivisionDown
    \/ HandlePresetChange
    \/ HandleDeletePreset
    \/ HandleFileImport

SpecPreset == Init /\ [][NextPreset]_vars

\* the preset library: save, select, delete and import, and the beats spinner
\* to change what is saved
NextLibrary ==
    \/ HandleSavePreset
    \/ HandlePresetChange
    \/ HandleDeletePreset
    \/ HandleDeleteAll
    \/ HandleFileImport
    \/ HandleTwinFileImport
    \/ BeatsUp

SpecLibrary == Init /\ [][NextLibrary]_vars

\* one playing session, the select box and the import dialog with good and
\* bad input
NextSelect ==
    \/ StartOnce
    \/ AdvanceClock
    \/ SchedulerTimer
    \/ PlayheadTimer
    \/ HandlePresetChange
    \/ HandleUnknownPresetChange
    \/ HandleFileImport
    \/ HandleRejectedFileImport

SpecSelect == Init /\ [][NextSelect]_vars

\* the grid next to stored presets: one playing session, clicks on the
\* kick row, the save button and the select box
NextPattern ==
    \/ StartOnce
    \/ Stop
    \/ ToggleKickCell
    \/ HandlePresetChange
    \/ HandleSavePreset

SpecPattern == Init /\ [][NextPattern]_vars

\* the tempo alone: the dial, the tempo field and a file with a string tempo
NextDial ==
    \/ DialDrag
    \/ HandleBpmChange
    \/ HandleBpmBlur
    \/ HandleTextFileImport

SpecDial == Init /\ [][NextDial]_vars

----------------------------------------------------------------------------
(* Properties *)

\* the onsets emitted by the last action, preceded by the onset emitted
\* before them when it belongs to the same playing session
Chain ==
    (IF emitted # <<>> /\ prevOnset.session = emitted[1].session
     THEN <<prevOnset>> ELSE <<>>)
    \o [k \in 1..Len(emitted) |-> Cursor(emitted[k])]

\* scheduler() ran in the last action as part of the program
Ticked == op \in {"start", "scheduler"}

\* C1: whenever scheduler() has read the tempo (a tick has run), the tempo is a
\* number in [MIN_BPM, MAX_BPM]
C1_TempoClamped ==
    Ticked => (bpm.type = "number" /\ bpm.val >= MIN_BPM /\ bpm.val <= MAX_BPM)

\* C2: every invocation of scheduler() terminates: its while loop is never
\* left running
C2_TickTerminates == ~hung

\* C3: while beatsPerCycle = n stays fixed in a session, the first onset of the
\* session has step 0, every onset has a step in 0..n-1 and each onset's step
\* is (step of the previous onset + 1) mod n
C3_StepSequence ==
    (beatsFixed /\ emitted # <<>>) =>
        /\ \A k \in 1..Len(Chain) : Chain[k].step \in 0..(beatsPerCycle - 1)
        /\ (prevOnset.session # emitted[1].session => emitted[1].step = 0)
        /\ \A k \in 1..(Len(Chain) - 1) :
              Chain[k + 1].step = (Chain[k].step + 1) % beatsPerCycle

\* C3 witness: with n >= 2 fixed, one tick emitted several onsets and the
\* step wrapped from n-1 to 0
C3_Witness ==
    /\ beatsFixed /\ ~hung /\ beatsPerCycle >= 2 /\ Len(emitted) >= 2
    /\ \E k \in 1..(Len(Chain) - 1) :
          Chain[k].step = beatsPerCycle - 1 /\ Chain[k + 1].step = 0

\* C4: the cursor's step index is always in [0, beatsPerCycle), and no onset is
\* emitted with a step index >= beatsPerCycle
C4_StepIndexInRange ==
    /\ stepRef \in 0..(beatsPerCycle - 1)
    /\ \A k \in 1..Len(emitted) : emitted[k].step < beatsPerCycle

\* C5: within a session every onset time is strictly greater than the one
\* emitted before it, and the cursor is never behind the last emitted onset
C5_OnsetTimesIncrease ==
    /\ \A k \in 1..(Len(Chain) - 1) : Less(Chain[k].time, Chain[k + 1].time)
    /\ emitted # <<>> => ~Less(nextNoteTime, emitted[Len(emitted)].time)

\* C6: the gap after an onset is (60 / bpm) / subdivision for the tempo and
\* meter at the emission of that onset: between the onsets of one tick, from
\* the last onset to the committed cursor, and from the last onset of a tick to
\* the first onset of a later tick; nothing but an emission moves the cursor of
\* a running session
C6_GapIsSecondsPerStep ==
    /\ \A k \in 1..(Len(emitted) - 1) :
          emitted[k + 1].time = Add(emitted[k].time, StepOf(emitted[k]))
    /\ emitted # <<>> =>
          nextNoteTime = Add(emitted[Len(emitted)].time, StepOf(emitted[Len(emitted)]))
    /\ (emitted # <<>> /\ prevOnset.session = emitted[1].session) =>
          emitted[1].time = prevOnset.next
    /\ (emitted = <<>> /\ isPlaying /\ prevOnset.session = session) =>
          nextNoteTime = prevOnset.next

\* C6 witness: a tick emitted an onset at the time committed before the tempo
\* or meter changed, and the gap after it is that of the new tempo and meter
C6_Witness ==
    /\ op = "scheduler" /\ ~hung /\ emitted # <<>>
    /\ prevOnset.session = emitted[1].session
    /\ emitted[1].time = prevOnset.next
    /\ Add(prevOnset.time, StepOf(emitted[1])) # prevOnset.next
    /\ nextNoteTime.type = "number"

\* C7: the first call of scheduler() of every session emits step 0 at the
\* clock value read at the start
C7_CursorResetOnStart ==
    op = "start" =>
        /\ emitted # <<>>
        /\ emitted[1].step = 0
        /\ emitted[1].time = Num(currentTime)
        /\ emitted[1].session = session

\* C7 witness: a second session starts after the first one left the cursor
\* beyond step 0 and at another time
C7_Witness ==
    /\ op = "start" /\ session = 2
    /\ prevOnset.session = 1 /\ prevOnset.step > 0
    /\ prevOnset.next # Num(currentTime)

\* C8: scheduler() called while not playing emits nothing, leaves the cursor
\* alone and arms no timer
C8_TickWhenStoppedIsNoOp ==
    [][(op' = "call" /\ ~isPlaying) =>
          /\ emitted' = <<>>
          /\ nextNoteTime' = nextNoteTime
          /\ stepRef' = stepRef
          /\ timers' = timers
          /\ timerID' = timerID]_vars

\* C8 witness: scheduler() was called after playback stopped, with a cursor
\* inside the look-ahead window
C8_Witness ==
    /\ op = "call" /\ ~isPlaying /\ session > 1
    /\ Less(nextNoteTime, Num(currentTime + scheduleAheadTime))

\* C9: while playback is stopped no poll timer is pending and no action emits
\* an onset (so the renderer is not invoked)
C9_StoppedNoScheduling ==
    ~isPlaying =>
        /\ emitted = <<>>
        /\ \A i \in 1..Len(timers) : timers[i].kind # "scheduler"

\* C9 witness: an import stopped a running session and the clock has advanced
\* since
C9_Witness ==
    ~isPlaying /\ stoppedBy = "handleFileImport" /\ op = "clock"

\* C10: while playback is stopped the step indicator is cleared
C10_IndicatorClearedWhenStopped == ~isPlaying => currentStep = -1

\* C10 witness: a playhead timer of a stopped session fired after the stop
C10_Witness == ~isPlaying /\ op = "playhead" /\ session > 1

\* the taps since the last timeout reset, in arrival order
TapsSinceReset == SubSeq(tapLog, tapReset, Len(tapLog))

\* C11: a tap that leaves five or more taps since the last reset writes
\* Tempo = clamp(round(60000 / mean interval), 30, 250), the mean taken over
\* the four intervals of the five most recent taps (mean # 0)
C11_TapTempo ==
    (op = "handleTap" /\ Len(TapsSinceReset) >= 5) =>
        LET n == Len(tapLog)
            total == (tapLog[n - 3] - tapLog[n - 4]) + (tapLog[n - 2] - tapLog[n - 3])
                     + (tapLog[n - 1] - tapLog[n - 2]) + (tapLog[n] - tapLog[n - 1])
        IN  /\ total > 0 =>
                /\ bpm.type = "number"
                /\ bpm.val \in MIN_BPM..MAX_BPM
                /\ bpm.val > MIN_BPM => (2 * bpm.val - 1) * total <= 8 * 60000
                /\ bpm.val < MAX_BPM => 8 * 60000 < (2 * bpm.val + 1) * total
            /\ total < 0 => bpm = Num(MIN_BPM)

\* C11 witness: six taps, the first interval 3000 ms and the other four 500 ms:
\* the sixth tap writes 120 from the last five taps only
C11_Witness ==
    /\ op = "handleTap" /\ Len(tapLog) = 6 /\ tapReset = 1
    /\ tapLog[2] - tapLog[1] = 3000
    /\ \A i \in 2..5 : tapLog[i + 1] - tapLog[i] = 500
    /\ bpm = Num(120)

\* C12: the Tempo written by the tap estimator is an integer in [30, 250], for
\* identical and backward timestamps too
C12_TapTempoInRange ==
    (op = "handleTap" /\ Len(TapsSinceReset) >= 5) =>
        (bpm.type = "number" /\ bpm.val \in MIN_BPM..MAX_BPM)

\* C12 witness: the estimator ran on a window whose timestamps do not advance
C12_Witness ==
    /\ op = "handleTap" /\ Len(tapTimes) = 5
    /\ tapTimes[5] <= tapTimes[1]
    /\ \E i \in 1..4 : tapTimes[i + 1] < tapTimes[i]

\* C13: a tap more than 3000 ms after the previous one makes the window [now]
\* and leaves Tempo alone; a tap exactly 3000 ms after it does not reset; and
\* no tap writes Tempo before five taps have arrived since the reset
C13_TapTimeout ==
    [][(op' = "handleTap" /\ tapLog # <<>>) =>
          LET now == tapLog'[Len(tapLog')]
              last == tapLog[Len(tapLog)]
          IN  /\ now - last > 3000 => (tapTimes' = <<now>> /\ bpm' = bpm)
              /\ now - last = 3000 => tapTimes' = Append(tapTimes, now)
                                       \/ tapTimes' = Append(Tail(tapTimes), now)
              /\ Len(tapLog') - tapReset' + 1 < 5 => bpm' = bpm]_vars

\* C13 witness: the fifth tap after a timeout reset
C13_Witness ==
    /\ op = "handleTap" /\ tapReset = 2 /\ Len(tapLog) = 6
    /\ tapLog[2] - tapLog[1] > 3000
    /\ Len(tapTimes) = 5

\* C14: the window holds at most 5 timestamps and is the most recent
\* min(k, 5) of the k taps since the last reset, in arrival order
C14_TapWindow ==
    LET k == Len(TapsSinceReset)
        m == IF k < 5 THEN k ELSE 5
    IN  /\ Len(tapTimes) <= 5
        /\ tapTimes = SubSeq(tapLog, Len(tapLog) - m + 1, Len(tapLog))

\* C14 witness: a sixth tap arrived and the oldest one left the window
C14_Witness ==
    /\ op = "handleTap" /\ Len(tapLog) = 6 /\ tapReset = 1
    /\ tapLog[1] # tapLog[2]
    /\ Len(tapTimes) = 5 /\ tapTimes[1] = tapLog[2] /\ tapTimes[5] = tapLog[6]

\* C15: a tap that leaves fewer than 5 entries in the window leaves Tempo
\* unchanged, and no tap changes the cursor, the playback mode, the meter or
\* the pattern
C15_TapFrame ==
    [][op' = "handleTap" =>
          /\ Len(tapTimes') < 5 => bpm' = bpm
          /\ UNCHANGED <<nextNoteTime, stepRef, isPlaying, beatsPerCycle,
                         subdivision, grid>>]_vars

\* C15 witness: a fourth tap while playing
C15_Witness ==
    op = "handleTap" /\ isPlaying /\ Len(tapTimes) = 4 /\ nextNoteTime # Num(0)

\* C16: a tap whose timestamp is not later than the previous tap's is
\* discarded: the window never holds a zero or negative interval
C16_DegenerateTapDiscarded ==
    \A i \in 1..(Len(tapTimes) - 1) : tapTimes[i] < tapTimes[i + 1]

\* the voice that scheduleNote renders for a row of the grid
VoiceOfRow(row) ==
    IF row = "high" THEN "hat" ELSE IF row = "mid" THEN "snare" ELSE "kick"

\* the number of render requests for the voice of `row` that onset o made
Renders(o, row) ==
    Cardinality({j \in 1..Len(o.sounds) : o.sounds[j].type = VoiceOfRow(row)})

\* C17: every emitted onset (step s, time t) invokes the renderer exactly once
\* for each voice whose cell (voice, s) is active and not at all for the other
\* voices, every invocation with time t
C17_VoiceIndependence ==
    \A k \in 1..Len(emitted) :
        LET o == emitted[k] IN
        /\ \A r \in 1..Len(Voices) :
              Renders(o, Voices[r]) = IF <<Voices[r], o.step>> \in grid THEN 1 ELSE 0
        /\ \A j \in 1..Len(o.sounds) : o.sounds[j].time = o.time

\* C17 witness: an onset on a step where only the low row is active made
\* exactly one render request, the kick
C17_Witness ==
    \E k \in 1..Len(emitted) :
        /\ Len(emitted[k].sounds) = 1
        /\ emitted[k].sounds[1].type = "kick"
        /\ emitted[k].sounds[1].time = emitted[k].time
        /\ <<"high", emitted[k].step>> \notin grid
        /\ <<"mid", emitted[k].step>> \notin grid

\* C18: an onset for step s emitted after toggle(voice, s) renders that voice
\* if and only if the toggle switched the cell on; the toggle itself emits no
\* onset and leaves the cursor and the pending timers alone
C18_ToggleEffective ==
    /\ [](\A k \in 1..Len(emitted) :
            emitted[k].step = lastToggle.col =>
                (Renders(emitted[k], lastToggle.row) = IF lastToggle.on THEN 1 ELSE 0))
    /\ [][op' = "toggleGridParams" =>
            /\ emitted' = <<>>
            /\ UNCHANGED <<nextNoteTime, stepRef, timers, timerID>>]_vars

\* C18 witness: a cell of step 1 was toggled while playing and the next tick
\* emitted step 1
C18_Witness ==
    /\ op = "scheduler" /\ isPlaying /\ lastToggle.session = session
    /\ lastToggle.col = 1
    /\ \E k \in 1..Len(emitted) : emitted[k].step = 1

\* C19: a tick that runs while playing with cursor time c, clock now and a
\* finite positive seconds-per-step s emits exactly the onsets c, c + s,
\* c + 2s, ... that are < now + 100 ms, with consecutive step indices, and
\* returns with the cursor at the first of these times that is >= now + 100 ms;
\* with c = now and s >= 100 ms that is one onset
C19_TickWindow ==
    [][(op' \in {"start", "scheduler"} /\ isPlaying') =>
          LET c == IF op' = "start" THEN Num(currentTime) ELSE nextNoteTime
              step0 == IF op' = "start" THEN 0 ELSE stepRef
              s == secondsPerStep
              limit == currentTime + 100
          IN  (c.type = "number" /\ s.type = "number" /\ s.val > 0) =>
                LET n == IF c.val >= limit THEN 0
                         ELSE (limit - c.val + s.val - 1) \div s.val
                IN  /\ Len(emitted') = n
                    /\ \A k \in 1..n :
                          /\ emitted'[k].time = Num(c.val + (k - 1) * s.val)
                          /\ emitted'[k].time.val < limit
                          /\ emitted'[k].step = (step0 + k - 1) % beatsPerCycle
                    /\ nextNoteTime' = Num(c.val + n * s.val)
                    /\ nextNoteTime'.val >= limit
                    /\ stepRef' = (step0 + n) % beatsPerCycle
                    /\ (c.val = currentTime /\ s.val >= 100) =>
                          (Len(emitted') = 1 /\ stepRef' = (step0 + 1) % beatsPerCycle)]_vars

\* C19 witness: one tick emitted several onsets
C19_Witness ==
    /\ op = "scheduler" /\ isPlaying /\ ~hung
    /\ secondsPerStep.type = "number" /\ secondsPerStep.val > 0
    /\ Len(emitted) >= 2

\* C20: in a session whose ticks each ran less than 100 ms after the tick
\* before, every onset is emitted at a clock time <= its onset time
C20_OnsetsNotLate ==
    ticksInTime => \A k \in 1..Len(emitted) : emitted[k].now <= emitted[k].time.val

\* C21: scheduler() never reads the clock of a null audio context, and a call
\* of scheduler() while the audio context is null emits no onset, raises no
\* error and leaves the cursor and the timers unchanged
C21_TickBeforeInit ==
    /\ [](threw # "scheduler")
    /\ [][(op' \in {"call", "scheduler", "start"} /\ ~audioCtx') =>
            /\ emitted' = <<>>
            /\ threw' = "none"
            /\ UNCHANGED <<nextNoteTime, stepRef, timers, timerID>>]_vars

\* C21 witness: scheduler() was called before the first start
C21_Witness == op = "call" /\ ~audioCtx /\ noiseBuffer = 0 /\ threw = "none"

\* C22: beatsPerCycle is always in 1..16 and subdivision in 1..8
C22_MeterInRange ==
    /\ beatsPerCycle \in 1..MAX_BEATS
    /\ subdivision \in 1..MAX_SUBDIVISION

\* the indices of the pending poll timers
PollTimers == {i \in 1..Len(timers) : timers[i].kind = "scheduler"}

\* C23: at most one poll timer is pending at any time; while playing (and the
\* tick has returned) exactly one is pending, the one timerIDRef names; and
\* the timer a tick arms is due 25 ms after the tick
C23_OnePollLoop ==
    /\ Cardinality(PollTimers) <= 1
    /\ (isPlaying /\ ~hung /\ threw = "none") =>
          (Cardinality(PollTimers) = 1 /\ timerID \in PollTimers)
    /\ (Ticked /\ isPlaying /\ ~hung) =>
          \A i \in PollTimers : timers[i].due = currentTime + 25

\* C23 witness: a tick of a second session has re-armed the poll
C23_Witness ==
    /\ op = "scheduler" /\ isPlaying /\ session = 2
    /\ stoppedBy \in {"handlePresetChange", "handleFileImport"}
    /\ Cardinality(PollTimers) = 1

\* the number of pending playhead timers in the timer list tm
VisualCount(tm) == Cardinality({i \in 1..Len(tm) : tm[i].kind = "visual"})

\* C24: a tick arms exactly one playhead timer per emitted onset (step s,
\* time t), due max(0, t - now) after the clock value now of the tick; and a
\* playhead timer that fires while playing sets the step indicator to the s
\* of its onset
C24_PlayheadSync ==
    [][/\ op' \in {"start", "scheduler"} =>
            /\ VisualCount(timers') = VisualCount(timers) + Len(emitted')
            /\ \A k \in 1..Len(emitted') :
                  LET t == emitted'[k].time.val
                      delay == IF t - currentTime > 0 THEN t - currentTime ELSE 0
                  IN  \E i \in 1..Len(timers') :
                          /\ timers'[i].kind = "visual"
                          /\ timers'[i].step = emitted'[k].step
                          /\ timers'[i].due = currentTime + delay
       /\ (op' = "playhead" /\ isPlaying) =>
            \E i \in 1..Len(timers) :
                /\ timers[i].kind = "visual"
                /\ timers[i].due <= currentTime
                /\ timers' = SubSeq(timers, 1, i - 1) \o SubSeq(timers, i + 1, Len(timers))
                /\ currentStep' = timers[i].step]_vars

\* C24 witness: a playhead timer fired while playing, after the cursor had
\* moved on to another step
C24_Witness ==
    /\ op = "playhead" /\ isPlaying
    /\ currentStep >= 1 /\ currentStep # stepRef

\* C25: an onset whose step index is outside [0, beatsPerCycle) at the time it
\* is emitted causes no call of the sound renderer, whatever cells the pattern
\* has at that step
C25_OutOfRangeInactive ==
    \A k \in 1..Len(emitted) :
        emitted[k].step >= emitted[k].beatsPerCycle => emitted[k].sounds = <<>>

\* C26: a change of beatsPerCycle while playing leaves the next onset time, the
\* cursor's step index, the playback mode and the pending timers (the poll loop
\* and the playhead timers of the onsets already emitted) as they were and
\* emits no onset; the next tick wraps the step index with the new value
C26_MeterChangeFrame ==
    [][/\ (op' \in {"beatsUp", "beatsDown"} /\ isPlaying) =>
            /\ UNCHANGED <<nextNoteTime, stepRef, isPlaying, timers, timerID, session>>
            /\ emitted' = <<>>
       /\ (op' = "scheduler" /\ emitted' # <<>>) =>
            stepRef' = (emitted'[Len(emitted')].step + 1) % beatsPerCycle]_vars

\* C26 witness: while playing with the cursor past step 0 and timers pending,
\* beatsPerCycle was reduced to a value that the cursor's step index exceeds
C26_Witness ==
    /\ op = "beatsDown" /\ isPlaying
    /\ stepRef >= beatsPerCycle
    /\ timerID # 0 /\ timers # <<>>

\* the source nodes of the renders of the last tick, each with the voice and
\* the onset time of its render
EmittedSources ==
    UNION { UNION { { [voice |-> emitted[k].sounds[j].type,
                       time |-> emitted[k].sounds[j].time,
                       src |-> emitted[k].sounds[j].sources[i]] :
                      i \in 1..Len(emitted[k].sounds[j].sources) } :
                    j \in 1..Len(emitted[k].sounds) } :
            k \in 1..Len(emitted) }

\* C27: over any sequence of starts and stops at most one noise buffer is ever
\* generated, and only by a start that finds none; once the audio context
\* exists (so that a tick can render) the buffer exists; every snare and hat
\* render plays that one buffer, and no tick or other operation replaces it
C27_NoiseBufferOnce ==
    /\ [](noiseBuffer \in {0, 1})
    /\ [](audioCtx => noiseBuffer = 1)
    /\ [](\A e \in EmittedSources :
            /\ e.src.node = "noise" => (e.src.buffer = noiseBuffer /\ noiseBuffer = 1)
            /\ (e.voice = "hat" \/ e.voice = "snare") =>
                  \E f \in EmittedSources :
                      f.voice = e.voice /\ f.time = e.time /\ f.src.node = "noise")
    /\ [][noiseBuffer' # noiseBuffer => (op' = "start" /\ noiseBuffer = 0)]_vars

\* C27 witness: the start of a second session, which ran initAudio again,
\* rendered a snare and a hat from the buffer of the first
C27_Witness ==
    /\ op = "start" /\ session = 2 /\ noiseBuffer = 1
    /\ \E e \in EmittedSources : e.voice = "snare" /\ e.src.node = "noise"
    /\ \E e \in EmittedSources : e.voice = "hat" /\ e.src.node = "noise"

\* the duration in ms that the Sound Renderer contract gives each voice
VoiceDuration(voice) ==
    IF voice = "kick" THEN 500 ELSE IF voice = "snare" THEN 200 ELSE 50

\* stop - start of a source node
SourceLength(src) == src.stop.val - src.start.val

\* C28 as stated: every source node of a render starts at the onset time, ramps
\* to a positive floor and stops exactly 0.5 s later for a kick, at most 0.2 s
\* later for a snare and exactly 0.05 s later for a hat
C28_ExactDurations ==
    \A e \in EmittedSources :
        /\ e.src.start = e.time
        /\ e.src.floor > 0
        /\ SourceLength(e.src) > 0
        /\ e.voice = "kick" => SourceLength(e.src) = 500
        /\ e.voice = "snare" => SourceLength(e.src) <= 200
        /\ e.voice = "hat" => SourceLength(e.src) = 50

\* C28: every source node of a render starts at the onset time and stops a
\* positive time later that depends only on the voice and the node, at most
\* 0.5 s for a kick, 0.2 s for a snare and 0.05 s for a hat, the longest node of
\* a render exactly that long; every ramp ends at a positive floor; and a tick
\* that renders changes no tempo or pattern state and moves the cursor as a
\* tick without renders does
C28_SelfTerminating ==
    /\ [](\A e \in EmittedSources :
            /\ e.src.start = e.time
            /\ e.src.floor > 0
            /\ SourceLength(e.src) \in 1..VoiceDuration(e.voice)
            /\ \E f \in EmittedSources :
                  /\ f.voice = e.voice /\ f.time = e.time
                  /\ SourceLength(f.src) = VoiceDuration(e.voice)
            /\ \A f \in EmittedSources :
                  (f.voice = e.voice /\ f.src.node = e.src.node) =>
                      SourceLength(f.src) = SourceLength(e.src))
    /\ [][(op' \in {"start", "scheduler"} /\ emitted' # <<>>) =>
            /\ UNCHANGED <<bpm, beatsPerCycle, subdivision, grid>>
            /\ nextNoteTime' = Add(emitted'[Len(emitted')].time, secondsPerStep)
            /\ stepRef' = (emitted'[Len(emitted')].step + 1) % beatsPerCycle]_vars

\* C28 witness: one tick rendered all three voices, the kick with its body
\* and its 20 ms click
C28_Witness ==
    /\ op \in {"start", "scheduler"}
    /\ \E e \in EmittedSources :
          e.voice = "kick" /\ e.src.node = "clickOsc" /\ SourceLength(e.src) = 20
    /\ \E e \in EmittedSources : e.voice = "kick" /\ SourceLength(e.src) = 500
    /\ \E e \in EmittedSources : e.voice = "snare" /\ e.src.node = "noise"
    /\ \E e \in EmittedSources : e.voice = "hat"

\* C29: whatever the tempo was before (a number, the empty field, a value
\* that is not a number) and whatever the pointer movement, the tempo that a
\* dial drag writes is an integer in [30, 250]
C29_DialInRange ==
    op = "updateBpmFromDelta" => (bpm.type = "number" /\ bpm.val \in 30..250)

\* C30: when the tempo field loses the focus after manual entry (any texts
\* typed into it, among them the empty text and values below the minimum), the
\* tempo is a number in [30, 250]; the entry itself may leave it empty or
\* below the minimum
C30_BlurClamps ==
    /\ [](op = "handleBpmBlur" => (bpm.type = "number" /\ bpm.val \in MIN_BPM..MAX_BPM))
    /\ [][op' = "handleBpmBlur" =>
            bpm' = IF bpm.type = "number" /\ bpm.val \in MIN_BPM..MAX_BPM
                   THEN bpm ELSE Num(MIN_BPM)]_vars

\* C30 witness: the field lost the focus while playing and the tempo became
\* the minimum, which happens only when the blur replaces an empty or
\* below-minimum entry (no text of BpmInputs enters 30)
C30_Witness ==
    /\ op = "handleBpmBlur" /\ bpm = Num(MIN_BPM) /\ isPlaying

\* C31: while playing, the next onset time stays finite, so that the clock
\* reaches it and the poll loop goes on emitting onsets, also after the tempo
\* field held an empty or zero value for a while
C31_OnsetTimeFinite ==
    (isPlaying /\ ~hung) => nextNoteTime.type = "number"

\* C32: a playhead timer that changes the step indicator belongs to an onset
\* of the playing session that is running when it fires, never to an onset of
\* a session that was stopped before
C32_NoStaleSignal ==
    [][(op' = "playhead" /\ currentStep' # currentStep) =>
          timers[NextTimer(timers)].session = session]_vars

\* C33: the delay of the playhead timer armed for an emitted onset is at least
\* 0 and less than the look-ahead horizon of 100 ms, at every tempo and also
\* when the tick ran late and the onset time is already past
C33_VisualDelayBounded ==
    \A k \in 1..Len(emitted) :
        /\ emitted[k].delay >= 0
        /\ emitted[k].delay < scheduleAheadTime
        /\ emitted[k].time.val <= emitted[k].now => emitted[k].delay = 0
        /\ emitted[k].time.val > emitted[k].now =>
              emitted[k].delay = emitted[k].time.val - emitted[k].now

\* C33 witness: a late tick at a tempo other than the default emitted an onset
\* whose time was past (delay 0) and one that is still ahead
C33_Witness ==
    /\ op = "scheduler" /\ bpm # Num(120)
    /\ \E k \in 1..Len(emitted) : emitted[k].time.val < emitted[k].now
    /\ \E k \in 1..Len(emitted) : emitted[k].delay > 0

C35_SelectionValid ==
    /\ presets # <<>>
    /\ \E i \in 1..Len(presets) : presets[i].id = selectedPresetId

\* the tempo, meter and pattern are those of preset p and playback is stopped
LoadedFrom(p) ==
    /\ bpm' = p.bpm
    /\ beatsPerCycle' = p.beatsPerCycle
    /\ subdivision' = OrOne(p.subdivision)
    /\ grid' = p.grid
    /\ selectedPresetId' = p.id
    /\ ~isPlaying'

\* C36: selecting an existing preset or importing a valid file leaves playback
\* stopped and loads tempo, meter and pattern from that preset (the first of
\* the file, which replaces the list); selecting an unknown id or importing an
\* empty or malformed file changes none of tempo, meter, pattern, preset
\* list, selection and playback mode
C36_LoadOrNothing ==
    [][/\ op' = "handlePresetChange" =>
           IF FindPreset(presets, asked') # 0
           THEN /\ LoadedFrom(presets[FindPreset(presets, asked')])
                /\ presets' = presets
           ELSE UNCHANGED <<bpm, beatsPerCycle, subdivision, grid, presets,
                            selectedPresetId, isPlaying>>
       /\ op' = "handleFileImport" =>
           IF asked' # "none"
           THEN /\ LoadedFrom(presets'[1])
                /\ presets'[1].id = asked'
                /\ \E f \in ImportFiles :
                       presets' = [k \in 1..Len(f) |-> Normalize(f[k])]
           ELSE UNCHANGED <<bpm, beatsPerCycle, subdivision, grid, presets,
                            selectedPresetId, isPlaying>>]_vars

\* a preset other than the selected one is chosen while playing
C36_Witness ==
    /\ op = "handlePresetChange"
    /\ stoppedBy = "handlePresetChange"
    /\ Len(presets) > 1
    /\ selectedPresetId = presets[2].id
    /\ bpm = presets[2].bpm
    /\ ~isPlaying

\* the cell of the last click
ToggledCell == <<lastToggle.row, lastToggle.col>>

\* C37: toggleGridParams(voice, step) flips the activeness of exactly that
\* cell and leaves every other cell, the tempo, the meter, the schedule cursor,
\* the playback mode and every stored preset unchanged; a second toggle of the
\* same cell gives the cell the activeness it had before the first
C37_ToggleFrame ==
    [][op' = "toggleGridParams" =>
          /\ (ToggledCell' \in grid') = (ToggledCell' \notin grid)
          /\ grid' \ {ToggledCell'} = grid \ {ToggledCell'}
          /\ UNCHANGED <<bpm, beatsPerCycle, subdivision, nextNoteTime, stepRef,
                         isPlaying, presets, selectedPresetId>>
          /\ (op = "toggleGridParams" /\ ToggledCell' = ToggledCell) =>
                (ToggledCell \in grid') = ~lastToggle.on]_vars

\* C37 witness: while playing with the cursor past step 0, and after the grid
\* had been saved as the preset that is selected, a cell of the grid was
\* switched off and has just been switched on again
C37_Witness ==
    /\ op = "toggleGridParams" /\ isPlaying /\ stepRef > 0
    /\ Len(presets) > 1
    /\ selectedPresetId = presets[2].id
    /\ grid = presets[2].grid
    /\ ToggledCell \in grid
    /\ lastToggle.on

====
